---------------------------- MODULE Spec2Model ----------------------------
(***************************************************************************)
(* Model of the chat-archive converters of cheesecake-recipes:             *)
(*   - whatsapp/whatsapp.py: parse_markdown and backup_messages (the       *)
(*     plain-text transcript parser);                                      *)
(*   - matrix/matrix-convertor.py: backup_messages (events -> rows).       *)
(*                                                                         *)
(* Python strings are TLA+ strings, indexed from 1 (Len, SubSeq, \o).      *)
(* A TLA+ string literal cannot hold the backquote character, so the       *)
(* backquote of the WhatsApp markup is written as the apostrophe           *)
(* throughout; both are non-word characters that html.escape(quote=False)  *)
(* leaves alone, and the apostrophe has no other role in the model.        *)
(***************************************************************************)
EXTENDS Integers, Sequences, FiniteSets, TLC

\* ------------------------------------------------------------------------
\* Strings and the regular-expression character classes
\* ------------------------------------------------------------------------

\* s[i] of Python, 1-based
Ch(s, i) == SubSeq(s, i, i)

\* s[i:] of Python, 1-based
From(s, i) == SubSeq(s, i, Len(s))

\* s.startswith(p, i-1)
StartsAt(s, i, p) == /\ i >= 1
                     /\ i + Len(p) - 1 <= Len(s)
                     /\ SubSeq(s, i, i + Len(p) - 1) = p

WordString == "abcdefghijklmnopqrstuvwxyzABCDEFGHIJKLMNOPQRSTUVWXYZ0123456789_"

\* \w of the re module (ASCII part): letters, digits and the underscore
WordChars == {Ch(WordString, i) : i \in 1..Len(WordString)}

IsWord(c) == c \in WordChars

\* \d of the re module (ASCII part)
Digits == {"0", "1", "2", "3", "4", "5", "6", "7", "8", "9"}

\* the characters str.strip() removes (those of them that occur in the model)
Whitespace == {" ", "\n"}

\* the triple backquote, written with apostrophes
BT3 == "'''"

RECURSIVE LStrip(_)
LStrip(s) == IF Len(s) > 0 /\ Ch(s, 1) \in Whitespace THEN LStrip(From(s, 2)) ELSE s

RECURSIVE RStrip(_)
RStrip(s) == IF Len(s) > 0 /\ Ch(s, Len(s)) \in Whitespace
             THEN RStrip(SubSeq(s, 1, Len(s) - 1)) ELSE s

\* str.strip()
Strip(s) == RStrip(LStrip(s))

\* str.replace(old, new) for a one-character old
RECURSIVE Replace(_, _, _)
Replace(s, old, new) ==
    IF Len(s) = 0 THEN ""
    ELSE (IF Ch(s, 1) = old THEN new ELSE Ch(s, 1)) \o Replace(From(s, 2), old, new)

\* html.escape(text, quote=False)
html_escape(s) == Replace(Replace(Replace(s, "&", "&amp;"), "<", "&lt;"), ">", "&gt;")

\* ------------------------------------------------------------------------
\* parse_markdown: four re.sub passes.  Each XMatch(s, i) is the match of
\* one alternative that starts at position i (0 when there is none); each
\* XSub(s, i) is re.sub from position i: leftmost match, then on from its end.
\* ------------------------------------------------------------------------

\* the lazy (.+?) followed by `close`: the content already holds at least one
\* character and ends before k; the result is where `close` starts, 0 if none
RECURSIVE LazyClose(_, _, _, _)
LazyClose(s, k, close, dotall) ==
    IF k + Len(close) - 1 > Len(s) THEN 0
    ELSE IF StartsAt(s, k, close) THEN k
    ELSE IF ~dotall /\ Ch(s, k) = "\n" THEN 0
    ELSE LazyClose(s, k + 1, close, dotall)

\* ```(.+?)``` at i: the position of the closing marker
MonoMatch(s, i, dotall) ==
    IF /\ StartsAt(s, i, BT3)
       /\ i + 3 <= Len(s)
       /\ (dotall \/ Ch(s, i + 3) # "\n")
    THEN LazyClose(s, i + 4, BT3, dotall)
    ELSE 0

\* \b_(.+?)_ at i: the position of the closing underscore
ItalicMatch(s, i) ==
    IF /\ StartsAt(s, i, "_")
       /\ (i = 1 \/ ~IsWord(Ch(s, i - 1)))
       /\ i + 1 <= Len(s)
       /\ Ch(s, i + 1) # "\n"
    THEN LazyClose(s, i + 2, "_", FALSE)
    ELSE 0

\* the italics pass
RECURSIVE ItalicSub(_, _)
ItalicSub(s, i) ==
    IF i > Len(s) THEN ""
    ELSE LET m1 == MonoMatch(s, i, FALSE)
             m2 == ItalicMatch(s, i)
         IN  IF m1 # 0 THEN SubSeq(s, i, m1 + 2) \o ItalicSub(s, m1 + 3)
             ELSE IF m2 # 0
                  THEN "<em>" \o SubSeq(s, i + 1, m2 - 1) \o "</em>" \o ItalicSub(s, m2 + 1)
                  ELSE Ch(s, i) \o ItalicSub(s, i + 1)

\* the first position >= k that holds the character d, Len(s)+1 if none
RECURSIVE FindChar(_, _, _)
FindChar(s, k, d) ==
    IF k > Len(s) THEN Len(s) + 1
    ELSE IF Ch(s, k) = d THEN k
    ELSE FindChar(s, k + 1, d)

\* SpanFrom with the lookahead (?=\W|$) left out
SpanFrom_NoLookahead(s, st, d) ==
    IF ~StartsAt(s, st, d) THEN 0
    ELSE LET e == FindChar(s, st + 1, d)
         IN  IF e >= st + 2 /\ e <= Len(s) THEN e ELSE 0

\* \*([^*]+)\*(?=\W|$) with the opening delimiter d at st: the position of
\* the closing delimiter
SpanFrom(s, st, d) ==
    IF ~StartsAt(s, st, d) THEN 0
    ELSE LET e == FindChar(s, st + 1, d)
         IN  IF /\ e >= st + 2
                /\ e <= Len(s)
                /\ (e = Len(s) \/ ~IsWord(Ch(s, e + 1)))
             THEN e ELSE 0

\* (\W|^)d([^d]+)d(?=\W|$) at i: <<opening delimiter, closing delimiter>>;
\* \W is tried before ^
SpanMatch(s, i, d) ==
    IF ~IsWord(Ch(s, i)) /\ SpanFrom(s, i + 1, d) # 0
    THEN <<i + 1, SpanFrom(s, i + 1, d)>>
    ELSE IF i = 1 /\ SpanFrom(s, 1, d) # 0
         THEN <<1, SpanFrom(s, 1, d)>>
         ELSE <<0, 0>>

\* the bold pass (d = "*", tag = "strong") and the strikethrough pass
\* (d = "~", tag = "del")
RECURSIVE SpanSub(_, _, _, _)
SpanSub(s, i, d, tag) ==
    IF i > Len(s) THEN ""
    ELSE LET m1 == MonoMatch(s, i, FALSE)
             m2 == SpanMatch(s, i, d)
         IN  IF m1 # 0 THEN SubSeq(s, i, m1 + 2) \o SpanSub(s, m1 + 3, d, tag)
             ELSE IF m2[1] # 0
                  THEN SubSeq(s, i, m2[1] - 1) \o "<" \o tag \o ">"
                       \o SubSeq(s, m2[1] + 1, m2[2] - 1) \o "</" \o tag \o ">"
                       \o SpanSub(s, m2[2] + 1, d, tag)
                  ELSE Ch(s, i) \o SpanSub(s, i + 1, d, tag)

\* the monospace pass (re.DOTALL)
RECURSIVE MonoSub(_, _)
MonoSub(s, i) ==
    IF i > Len(s) THEN ""
    ELSE LET m == MonoMatch(s, i, TRUE)
         IN  IF m # 0
             THEN "<pre>" \o SubSeq(s, i + 3, m - 1) \o "</pre>" \o MonoSub(s, m + 3)
             ELSE Ch(s, i) \o MonoSub(s, i + 1)

Italics(s) == ItalicSub(s, 1)
Bold(s) == SpanSub(s, 1, "*", "strong")
Strikethrough(s) == SpanSub(s, 1, "~", "del")
Monospace(s) == MonoSub(s, 1)

\* parse_markdown without the newline substitution of line 58
parse_markdown_NoNewlines(text, test) ==
    LET escaped == IF test THEN text ELSE html_escape(text)
    IN  Monospace(Strikethrough(Bold(Italics(escaped))))

\* parse_markdown with html.escape moved behind the four passes
parse_markdown_EscapeLast(text, test) ==
    LET marked == Monospace(Strikethrough(Bold(Italics(text))))
    IN  IF test THEN marked ELSE Replace(html_escape(marked), "\n", "<br>")

parse_markdown(text, test) ==
    LET escaped == IF test THEN text ELSE html_escape(text)
        marked  == Monospace(Strikethrough(Bold(Italics(escaped))))
    IN  IF test THEN marked ELSE Replace(marked, "\n", "<br>")


\* ------------------------------------------------------------------------
\* The transcript line grammar of backup_messages
\* ------------------------------------------------------------------------

\* (\d\d)/(\d\d)/(\d\d), (\d\d):(\d\d) -  : the 18 characters both patterns
\* start with
HasPrefix(line) ==
    /\ Len(line) >= 18
    /\ \A k \in {1, 2, 4, 5, 7, 8, 11, 12, 14, 15} : Ch(line, k) \in Digits
    /\ Ch(line, 3) = "/" /\ Ch(line, 6) = "/"
    /\ SubSeq(line, 9, 10) = ", "
    /\ Ch(line, 13) = ":"
    /\ SubSeq(line, 16, 18) = " - "

\* where the colon that ends ([^:]+) is
SenderEnd(line) == FindChar(line, 19, ":")

\* pattern.match(line) is not None
pattern(line) ==
    /\ HasPrefix(line)
    /\ SenderEnd(line) >= 20
    /\ SenderEnd(line) + 2 <= Len(line)
    /\ Ch(line, SenderEnd(line) + 1) = " "
    /\ Ch(line, SenderEnd(line) + 2) # "\n"

\* \d\d/\d\d/\d\d, \d\d:\d\d : the date and the time both patterns start with
HasDateTime(line) ==
    /\ Len(line) >= 15
    /\ \A k \in {1, 2, 4, 5, 7, 8, 11, 12, 14, 15} : Ch(line, k) \in Digits
    /\ Ch(line, 3) = "/" /\ Ch(line, 6) = "/"
    /\ SubSeq(line, 9, 10) = ", "
    /\ Ch(line, 13) = ":"

\* skip_pattern without the dash: the date, the time and .+
skip_pattern_NoDash(line) ==
    /\ HasDateTime(line)
    /\ Len(line) >= 16
    /\ Ch(line, 16) # "\n"

\* skip_pattern.match(line) is not None
skip_pattern(line) ==
    /\ HasPrefix(line)
    /\ Len(line) >= 19
    /\ Ch(line, 19) # "\n"

\* match.group(6) and match.group(7) of pattern
Group6(line) == SubSeq(line, 19, SenderEnd(line) - 1)
Group7(line) == SubSeq(line, SenderEnd(line) + 2,
                       FindChar(line, SenderEnd(line) + 2, "\n") - 1)

DigitString == "0123456789"

DigitVal(c) == (CHOOSE k \in 1..10 : Ch(DigitString, k) = c) - 1

\* int() of two digits
Int2(s) == 10 * DigitVal(Ch(s, 1)) + DigitVal(Ch(s, 2))

\* the arguments of datetime(year, month, day, hour, minute)
Created(line) ==
    [year   |-> 2000 + Int2(SubSeq(line, 7, 8)),
     month  |-> Int2(SubSeq(line, 4, 5)),
     day    |-> Int2(SubSeq(line, 1, 2)),
     hour   |-> Int2(SubSeq(line, 11, 12)),
     minute |-> Int2(SubSeq(line, 14, 15))]

DaysInMonth(y, m) ==
    IF m = 2 THEN (IF y % 4 = 0 /\ (y % 100 # 0 \/ y % 400 = 0) THEN 29 ELSE 28)
    ELSE IF m \in {4, 6, 9, 11} THEN 30 ELSE 31

\* datetime(...) returns instead of raising ValueError
ValidDate(d) ==
    /\ d.month \in 1..12
    /\ d.day >= 1 /\ d.day <= DaysInMonth(d.year, d.month)
    /\ d.hour <= 23
    /\ d.minute <= 59

\* the deletion markers without the second phrase
DeletionMarkers_FirstOnly == {"This message was deleted"}

DeletionMarkers == {"This message was deleted", "You deleted this message"}

FileAttached == " (file attached)"

Max(S) == CHOOSE x \in S : \A y \in S : y <= x

\* re.match(r"(.*)(IMG-.+.jpg) \(file attached\)", content): <<p, e>>, the
\* start of group 2 and the start of its "jpg"; both quantifiers are greedy,
\* so the last IMG- that can be completed wins, then the last completion
ImgStarts(c) == {p \in 1..Len(c) : StartsAt(c, p, "IMG-")}
ImgEnds(c) == {e \in 1..Len(c) : StartsAt(c, e, "jpg" \o FileAttached)}
ImgMatch(c) ==
    LET ps == {p \in ImgStarts(c) : \E e \in ImgEnds(c) : e >= p + 6}
    IN  IF ps = {} THEN <<0, 0>>
        ELSE <<Max(ps), Max({e \in ImgEnds(c) : e >= Max(ps) + 6})>>

\* content[-16:] == " (file attached)"
HasSuffix(c) == Len(c) >= 16 /\ SubSeq(c, Len(c) - 15, Len(c)) = FileAttached

\* ntpath.basename
RECURSIVE LastSep(_, _)
LastSep(s, k) == IF k = 0 THEN 0
                 ELSE IF Ch(s, k) \in {"/", "\\"} THEN k
                 ELSE LastSep(s, k - 1)
basename(s) == From(s, LastSep(s, Len(s)) + 1)

\* json.dumps([attachment])
JsonList(ref) == "[\"" \o ref \o "\"]"

\* ------------------------------------------------------------------------
\* State
\* ------------------------------------------------------------------------

VARIABLES
    lines,      \* backup_messages: f.readlines()
    i,          \* backup_messages: index of the line the loop is at (0-based)
    skip,       \* backup_messages: the lookahead flag
    messages,   \* backup_messages: the list being built
    pc,         \* backup_messages: "loop", "done" (returned), "raised", "idle";
                \* then "committed" and "indexed"
    err,        \* backup_messages: the exception that ended it, "" if none
    copies,     \* history: the shutil.copyfile calls made, in order
    wa_table,   \* whatsapp: the messages table of backup.db
    message_search, \* whatsapp: the message_search table, None before it exists
    md_text,    \* parse_markdown: the argument
    md_detect,  \* parse_markdown(md_text, True), None before the call
    md_render,  \* parse_markdown(md_text, False), None before the call
    md_pc,      \* parse_markdown: "call", "done", "idle"
    mx_events,  \* matrix: the events of the events.json files, in glob order
    mx_i,       \* matrix: the number of events handled
    mx_chats,   \* matrix: the chats table
    mx_users,   \* matrix: the users table
    mx_messages,\* matrix: the messages table, in rowid order
    mx_dirs,    \* matrix: the attachment directories made
    mx_pc,      \* matrix: "main", "events", "done", "raised", "idle"
    mx_err,     \* matrix: the exception that ended the run, "" if none
    wu_info,    \* whatsapp: info.json's "users", name -> user_id/avatar/color
    wu_chats,   \* whatsapp: the sender names of each transcript, in glob order
    wu_t,       \* whatsapp: the number of transcripts begun
    wu_todo,    \* backup_users: the names the loop has not reached yet
    wu_new,     \* backup_users: new_users, in insertion order
    wu_group,   \* backup_users: group_users
    wu_users,   \* initialize_backup: users (existing_users)
    wu_ids,     \* initialize_backup: user_ids (existing_ids)
    wu_table,   \* whatsapp: the users table
    wu_uuid,    \* whatsapp: the number of avatar names drawn from shortuuid
    wu_resolved,\* history: the group_users each backup_users call returned
    wu_skipped, \* history: <<transcript, name>> of every answer y to "Skip?"
    wu_log,     \* history: the ids of the users rows inserted, in order
    wu_pc,      \* whatsapp: "main", "names", "write", "done", "raised", "idle"
    wu_err      \* whatsapp: the exception that ended the run, "" if none

vars == <<lines, i, skip, messages, pc, err, copies, wa_table, message_search,
          md_text, md_detect, md_render, md_pc,
          mx_events, mx_i, mx_chats, mx_users, mx_messages, mx_dirs, mx_pc, mx_err,
         wu_info, wu_chats, wu_t, wu_todo, wu_new, wu_group, wu_users, wu_ids,
         wu_table, wu_uuid, wu_resolved, wu_skipped, wu_log, wu_pc, wu_err>>

\* A Python value that may be None is a sequence of length 0 (None) or 1
None == <<>>
Some(v) == <<v>>

\* truthiness of an optional string: not None and not ""
Truthy(c) == c # None /\ c[1] # ""

\* ------------------------------------------------------------------------
\* backup_messages(filepath, chat_id, group_users)
\* ------------------------------------------------------------------------

\* the chat_id argument
chat_id == "chat1"

\* the group_users argument: what backup_users returned for the two senders
group_users ==
    [n \in {"Alice", "Bob"} |->
        IF n = "Alice"
        THEN [user_id |-> "911", avatar |-> "a.png", color |-> None]
        ELSE [user_id |-> "922", avatar |-> "b.png", color |-> Some("#48ff63")]]

\* Header without the lookahead flag of the image form
Header_NoSkip(ls, n) ==
    LET g7       == Group7(ls[n])
        deleted  == g7 \in DeletionMarkers
        content0 == IF deleted THEN "" ELSE g7
        img      == ImgMatch(content0)
        hasNext  == Len(ls) > n
        caption  == /\ hasNext
                    /\ ~pattern(ls[n + 1])
                    /\ ~skip_pattern(ls[n + 1])
        fname    == SubSeq(content0, 1, Len(content0) - 16)
    IN  IF img[1] # 0
        THEN [skip         |-> FALSE,
              attachment   |-> Some(SubSeq(content0, img[1], img[2] + 2)),
              content      |-> SubSeq(content0, 1, img[1] - 1)
                                 \o (IF caption THEN ls[n + 1] ELSE ""),
              message_type |-> "default"]
        ELSE IF HasSuffix(content0)
        THEN [skip         |-> hasNext /\ Strip(ls[n + 1]) = Strip(fname),
              attachment   |-> Some(fname),
              content      |-> "",
              message_type |-> "default"]
        ELSE [skip         |-> FALSE,
              attachment   |-> None,
              content      |-> content0,
              message_type |-> IF deleted THEN "redacted" ELSE "default"]

\* Header with the generic form keeping the file name as content
Header_KeepName(ls, n) ==
    LET g7       == Group7(ls[n])
        deleted  == g7 \in DeletionMarkers
        content0 == IF deleted THEN "" ELSE g7
        img      == ImgMatch(content0)
        hasNext  == Len(ls) > n
        caption  == /\ hasNext
                    /\ ~pattern(ls[n + 1])
                    /\ ~skip_pattern(ls[n + 1])
        fname    == SubSeq(content0, 1, Len(content0) - 16)
    IN  IF img[1] # 0
        THEN [skip         |-> caption,
              attachment   |-> Some(SubSeq(content0, img[1], img[2] + 2)),
              content      |-> SubSeq(content0, 1, img[1] - 1)
                                 \o (IF caption THEN ls[n + 1] ELSE ""),
              message_type |-> "default"]
        ELSE IF HasSuffix(content0)
        THEN [skip         |-> hasNext /\ Strip(ls[n + 1]) = Strip(fname),
              attachment   |-> Some(fname),
              content      |-> fname,
              message_type |-> "default"]
        ELSE [skip         |-> FALSE,
              attachment   |-> None,
              content      |-> content0,
              message_type |-> IF deleted THEN "redacted" ELSE "default"]

\* The body of `if match := pattern.match(line)` for line n (1-based) up to
\* the copy of the attachment: the lookahead flag, the attachment's source
\* name (None if there is no attachment), the content and the message type
Header(ls, n) ==
    LET g7       == Group7(ls[n])
        deleted  == g7 \in DeletionMarkers
        content0 == IF deleted THEN "" ELSE g7
        img      == ImgMatch(content0)
        hasNext  == Len(ls) > n
        caption  == /\ hasNext
                    /\ ~pattern(ls[n + 1])
                    /\ ~skip_pattern(ls[n + 1])
        fname    == SubSeq(content0, 1, Len(content0) - 16)
    IN  IF img[1] # 0
        THEN [skip         |-> caption,
              attachment   |-> Some(SubSeq(content0, img[1], img[2] + 2)),
              content      |-> SubSeq(content0, 1, img[1] - 1)
                                 \o (IF caption THEN ls[n + 1] ELSE ""),
              message_type |-> "default"]
        ELSE IF HasSuffix(content0)
        THEN [skip         |-> hasNext /\ Strip(ls[n + 1]) = Strip(fname),
              attachment   |-> Some(fname),
              content      |-> "",
              message_type |-> "default"]
        ELSE [skip         |-> FALSE,
              attachment   |-> None,
              content      |-> content0,
              message_type |-> IF deleted THEN "redacted" ELSE "default"]

\* the dictionary appended for line n; id stands for shortuuid.uuid(), a
\* fresh value for every message; line is history (the header's index)
Message(ls, n, id) ==
    LET h        == Header(ls, n)
        stripped == Strip(h.content)
        marked   == stripped # "" /\ stripped # parse_markdown(stripped, TRUE)
        name     == Group6(ls[n])
    IN  [id                |-> id,
         line              |-> n,
         user_id           |-> group_users[name].user_id,
         name              |-> name,
         avatar            |-> group_users[name].avatar,
         color             |-> group_users[name].color,
         created_timestamp |-> Created(ls[n]),
         message_type      |-> h.message_type,
         content           |-> IF stripped # "" THEN Some(stripped) ELSE None,
         format            |-> IF marked THEN Some("whatsapp_markdown") ELSE None,
         formatted_content |-> IF marked THEN Some(parse_markdown(stripped, FALSE))
                                         ELSE None,
         attachments       |-> IF h.attachment # None
                               THEN Some(JsonList(chat_id \o "/" \o basename(h.attachment[1])))
                               ELSE None]

\* Continue appending the line as read, without strip()
Continue_NoStrip(m, line) ==
    IF skip_pattern(line) THEN m
    ELSE LET new_content == IF Truthy(m.content)
                            THEN m.content[1] \o "\n" \o line
                            ELSE Strip(line)
             marked == new_content # parse_markdown(new_content, TRUE)
         IN  [m EXCEPT
                !.content = Some(new_content),
                !.format = IF marked THEN Some("whatsapp_markdown") ELSE @,
                !.formatted_content =
                    IF marked THEN Some(parse_markdown(new_content, FALSE)) ELSE @]

\* Continue with the markup decision taken on the new line alone
Continue_LineOnly(m, line) ==
    IF skip_pattern(line) THEN m
    ELSE LET new_content == IF Truthy(m.content)
                            THEN m.content[1] \o "\n" \o Strip(line)
                            ELSE Strip(line)
             marked == Strip(line) # parse_markdown(Strip(line), TRUE)
         IN  [m EXCEPT
                !.content = Some(new_content),
                !.format = IF marked THEN Some("whatsapp_markdown") ELSE @,
                !.formatted_content =
                    IF marked THEN Some(parse_markdown(Strip(line), FALSE)) ELSE @]

\* the body of `elif len(messages) > 0` applied to the last message
Continue(m, line) ==
    IF skip_pattern(line) THEN m
    ELSE LET new_content == IF Truthy(m.content)
                            THEN m.content[1] \o "\n" \o Strip(line)
                            ELSE Strip(line)
             marked == new_content # parse_markdown(new_content, TRUE)
         IN  [m EXCEPT
                !.content = Some(new_content),
                !.format = IF marked THEN Some("whatsapp_markdown") ELSE @,
                !.formatted_content =
                    IF marked THEN Some(parse_markdown(new_content, FALSE)) ELSE @]

\* a dict with no key
EmptyMap == [k \in {} |-> <<>>]

wu_idle == /\ wu_info = EmptyMap /\ wu_chats = <<>> /\ wu_t = 0 /\ wu_todo = {}
           /\ wu_new = <<>> /\ wu_group = EmptyMap /\ wu_users = EmptyMap
           /\ wu_ids = {} /\ wu_table = {} /\ wu_uuid = 0 /\ wu_resolved = <<>>
           /\ wu_skipped = {} /\ wu_log = <<>> /\ wu_pc = "idle" /\ wu_err = ""
wu_same == UNCHANGED <<wu_info, wu_chats, wu_t, wu_todo, wu_new, wu_group,
                       wu_users, wu_ids, wu_table, wu_uuid, wu_resolved,
                       wu_skipped, wu_log, wu_pc, wu_err>>

md_idle == /\ md_text = "" /\ md_detect = None /\ md_render = None /\ md_pc = "idle"
md_same == UNCHANGED <<md_text, md_detect, md_render, md_pc>>

mx_idle == /\ mx_events = <<>> /\ mx_i = 0 /\ mx_chats = {} /\ mx_users = {}
           /\ mx_messages = <<>> /\ mx_dirs = {} /\ mx_pc = "idle" /\ mx_err = ""
ix_same == UNCHANGED <<wa_table, message_search>>

mx_same == UNCHANGED <<mx_events, mx_i, mx_chats, mx_users, mx_messages,
                       mx_dirs, mx_pc, mx_err>>

\* `if skip:` the line was taken by the previous iteration
SkipLine ==
    /\ pc = "loop" /\ i < Len(lines) /\ skip
    /\ skip' = FALSE
    /\ i' = i + 1
    /\ UNCHANGED <<lines, messages, pc, err, copies>>
    /\ md_same /\ mx_same /\ wu_same /\ ix_same

\* `if match := pattern.match(line):` one message, unless the copy of the
\* attachment or datetime() raises; whether the attachment's source file is
\* there is the environment's choice
HeaderLine ==
    /\ pc = "loop" /\ i < Len(lines) /\ ~skip
    /\ pattern(lines[i + 1])
    /\ LET h == Header(lines, i + 1)
       IN  \E found \in BOOLEAN :
             /\ (h.attachment = None => found)
             /\ copies' = IF h.attachment = None THEN copies
                          ELSE Append(copies, [line |-> i + 1,
                                               src  |-> h.attachment[1],
                                               ok   |-> found])
             /\ IF ~found
                THEN /\ pc' = "raised" /\ err' = "FileNotFoundError"
                     /\ UNCHANGED <<i, skip, messages>>
                ELSE IF ~ValidDate(Created(lines[i + 1]))
                THEN /\ pc' = "raised" /\ err' = "ValueError"
                     /\ skip' = h.skip
                     /\ UNCHANGED <<i, messages>>
                ELSE /\ messages' = Append(messages,
                                           Message(lines, i + 1, Len(messages) + 1))
                     /\ skip' = h.skip
                     /\ i' = i + 1
                     /\ UNCHANGED <<pc, err>>
    /\ UNCHANGED lines
    /\ md_same /\ mx_same /\ wu_same /\ ix_same

\* `elif len(messages) > 0:` a system message or a continuation
ContinuationLine ==
    /\ pc = "loop" /\ i < Len(lines) /\ ~skip
    /\ ~pattern(lines[i + 1])
    /\ Len(messages) > 0
    /\ messages' = [messages EXCEPT ![Len(messages)] = Continue(@, lines[i + 1])]
    /\ i' = i + 1
    /\ UNCHANGED <<lines, skip, pc, err, copies>>
    /\ md_same /\ mx_same /\ wu_same /\ ix_same

\* neither branch: a line before the first message
OrphanLine ==
    /\ pc = "loop" /\ i < Len(lines) /\ ~skip
    /\ ~pattern(lines[i + 1])
    /\ Len(messages) = 0
    /\ i' = i + 1
    /\ UNCHANGED <<lines, skip, messages, pc, err, copies>>
    /\ md_same /\ mx_same /\ wu_same /\ ix_same

\* `return messages`
Return ==
    /\ pc = "loop" /\ i = Len(lines)
    /\ pc' = "done"
    /\ UNCHANGED <<lines, i, skip, messages, err, copies>>
    /\ md_same /\ mx_same /\ wu_same /\ ix_same

\* the messages row initialize_backup writes for a message
MessageRow(message) ==
    [id                |-> message.id,
     user_id           |-> message.user_id,
     name              |-> message.name,
     avatar            |-> message.avatar,
     color             |-> message.color,
     created_timestamp |-> message.created_timestamp,
     edits             |-> None,
     reference         |-> None,
     message_type      |-> message.message_type,
     content           |-> message.content,
     format            |-> message.format,
     formatted_content |-> message.formatted_content,
     attachments       |-> message.attachments]

\* initialize_backup: INSERT INTO messages for every message returned, then
\* conn.commit()
WriteMessages ==
    /\ pc = "done"
    /\ wa_table' = [k \in 1..Len(messages) |-> MessageRow(messages[k])]
    /\ pc' = "committed"
    /\ UNCHANGED <<lines, i, skip, messages, err, copies, message_search>>
    /\ md_same /\ mx_same /\ wu_same

\* index_messages: message_search is dropped, created again with the
\* columns id and content, and filled from the messages table
index_messages ==
    /\ pc \in {"committed", "indexed"}
    /\ message_search' = Some([k \in 1..Len(wa_table) |->
                                 [id |-> wa_table[k].id, content |-> wa_table[k].content]])
    /\ pc' = "indexed"
    /\ UNCHANGED <<lines, i, skip, messages, err, copies, wa_table>>
    /\ md_same /\ mx_same /\ wu_same

\* ------------------------------------------------------------------------
\* The transcripts explored
\* ------------------------------------------------------------------------

MaxLines == 3

T1 == "01/01/23, 09:00 - "
T2 == "31/12/24, 23:59 - "

\* 31 February: matches \d\d/\d\d/\d\d but is no date
TBad == "31/02/23, 09:00 - "

\* the header lines explored
HPlain    == T1 \o "Alice: Hello"
HMarkup   == T2 \o "Bob:  _say_ *hi"
HDeleted  == T1 \o "Alice: This message was deleted"
HDeleted2 == T2 \o "Bob: You deleted this message"
HImage    == T2 \o "Bob: IMG-001.jpg (file attached)"
HImageTxt == T1 \o "Alice: look IMG-002.jpg (file attached)"
HFile     == T1 \o "Alice: doc.pdf (file attached)"
\* a file whose name reads like a header line
HFileHdr  == T1 \o "Alice: " \o HMarkup \o FileAttached
HBadDate  == TBad \o "Bob: Hello"

\* the other lines explored: continuations, a blank line, a system message,
\* a timestamp that lacks the dash, and a timestamp with nothing after the
\* dash
LineTexts ==
    { HPlain, HMarkup, HDeleted, HDeleted2, HImage, HImageTxt, HFile,
      HFileHdr, HBadDate,
      "world",
      " there* ",
      "doc.pdf",
      "",
      T1 \o "Bob joined",
      "01/01/23, 09:00 world",
      T1 }

\* readlines() of a file that ends with a newline: every line ends with "\n"
Init ==
    /\ \E n \in 0..MaxLines :
         \E texts \in [1..n -> LineTexts] :
           lines = [k \in 1..n |-> texts[k] \o "\n"]
    /\ i = 0
    /\ skip = FALSE
    /\ messages = <<>>
    /\ pc = "loop"
    /\ err = ""
    /\ copies = <<>>
    /\ wa_table = <<>>
    /\ message_search = None
    /\ md_idle
    /\ mx_idle
    /\ wu_idle

Next == SkipLine \/ HeaderLine \/ ContinuationLine \/ OrphanLine \/ Return
            \/ WriteMessages \/ index_messages

Spec == Init /\ [][Next]_vars

\* ------------------------------------------------------------------------
\* Properties of backup_messages
\* ------------------------------------------------------------------------

\* the three line classes of the transcript grammar
IsHeader(line) == pattern(line)
IsNotice(line) == ~pattern(line) /\ skip_pattern(line)
IsContinuation(line) == ~pattern(line) /\ ~skip_pattern(line)

\* the text of an optional string, null standing for no text
TextOf(c) == IF c = None THEN "" ELSE c[1]

Last(seq) == seq[Len(seq)]

\* the line before which message k ends: the next message's header, or the
\* line the loop is at
EndOf(k) == IF k < Len(messages) THEN messages[k + 1].line - 1 ELSE i

\* a header with a body that is not blank, not a deletion marker and holds
\* no attachment marker
IsPlainHeader(line) ==
    /\ IsHeader(line)
    /\ Strip(Group7(line)) # ""
    /\ Group7(line) \notin DeletionMarkers
    /\ ImgStarts(Group7(line)) = {}
    /\ ~HasSuffix(Group7(line))

\* the trimmed body of header h followed by "\n" and the trimmed line for
\* every continuation line among h+1..j
RECURSIVE Joined(_, _)
Joined(h, j) ==
    IF j <= h THEN Strip(Group7(lines[h]))
    ELSE IF IsContinuation(lines[j]) THEN Joined(h, j - 1) \o "\n" \o Strip(lines[j])
    ELSE Joined(h, j - 1)

\* C1: the content of a message whose header has a plain non-blank body is
\* the trimmed body followed, in transcript order, by "\n" and the trimmed
\* line for each continuation line read so far between its header and the
\* next message.
C1_MultiLineContent ==
    \A k \in 1..Len(messages) :
        IsPlainHeader(lines[messages[k].line]) =>
            messages[k].content = Some(Joined(messages[k].line, EndOf(k)))

\* C1 witness: a returned message whose plain header was followed by two
\* continuation lines ("Hello", then "world" and " there* ")
C1_Witness ==
    /\ pc = "done"
    /\ \E k \in 1..Len(messages) :
         /\ lines[messages[k].line] = HPlain \o "\n"
         /\ messages[k].line + 2 <= Len(lines)
         /\ IsContinuation(lines[messages[k].line + 1])
         /\ IsContinuation(lines[messages[k].line + 2])
         /\ messages[k].content = Some("Hello\nworld\nthere*")

HeaderLines == {n \in 1..Len(lines) : IsHeader(lines[n])}

\* C2: when backup_messages returns, it returns as many messages as the
\* transcript has lines matching the header grammar.
C2_CountEqualsHeaders ==
    pc = "done" => Len(messages) = Cardinality(HeaderLines)

\* a header whose body is exactly IMG-<name>.jpg (file attached), <name>
\* holding no further IMG-
IsImageOnly(line) ==
    /\ IsHeader(line)
    /\ StartsAt(Group7(line), 1, "IMG-")
    /\ Len(Group7(line)) >= 25
    /\ From(Group7(line), Len(Group7(line)) - 19) = ".jpg" \o FileAttached
    /\ ImgStarts(Group7(line)) = {1}

\* a header whose body is exactly <file> (file attached), not of the IMG form
IsFileOnly(line) ==
    /\ IsHeader(line)
    /\ HasSuffix(Group7(line))
    /\ ImgMatch(Group7(line)) = <<0, 0>>

\* the body without its " (file attached)"
FileName(line) == SubSeq(Group7(line), 1, Len(Group7(line)) - 16)

MessagesOf(S) == {k \in 1..Len(messages) : messages[k].line \in S}

IsEcho(h) == IsFileOnly(lines[h]) /\ Strip(lines[h + 1]) = Strip(FileName(lines[h]))

C5_DeletionMarker ==
    \A k \in 1..Len(messages) :
        Group7(lines[messages[k].line]) \in
            {"This message was deleted", "You deleted this message"}
        => /\ messages[k].message_type = "redacted"
           /\ messages[k].attachments = None
           /\ \A c \in 1..Len(copies) : copies[c].line # messages[k].line
           /\ (k = Len(messages) /\ i = messages[k].line
               => /\ messages[k].content = None
                  /\ messages[k].format = None
                  /\ messages[k].formatted_content = None)

\* C5 witness: both deletion phrases have just given a redacted message
C5_Witness ==
    /\ Len(messages) = 2
    /\ i = 2
    /\ lines[1] = HDeleted \o "\n"
    /\ lines[2] = HDeleted2 \o "\n"
    /\ messages[2].message_type = "redacted"

\* the k-th smallest element of a set of numbers
RECURSIVE Nth(_, _)
Nth(S, k) == LET lo == CHOOSE x \in S : \A y \in S : x <= y
             IN  IF k = 1 THEN lo ELSE Nth(S \ {lo}, k - 1)

\* C6: the k-th message takes its sender and its timestamp from the k-th
\* line of the transcript that matches the header grammar.
C6_KthMessageFromKthHeader ==
    \A k \in 1..Len(messages) :
        LET h == Nth(HeaderLines, k)
        IN  /\ messages[k].name = Group6(lines[h])
            /\ messages[k].user_id = group_users[Group6(lines[h])].user_id
            /\ messages[k].created_timestamp = Created(lines[h])

\* C9: every message with content carries the markup decision of that whole
\* content: format and formatted_content are the dialect tag and the
\* rendering when detection finds markup in the content, null otherwise.
C9_FormatFollowsContent ==
    \A k \in 1..Len(messages) :
        messages[k].content # None =>
            LET c == messages[k].content[1]
            IN  IF c # parse_markdown(c, TRUE)
                THEN /\ messages[k].format = Some("whatsapp_markdown")
                     /\ messages[k].formatted_content = Some(parse_markdown(c, FALSE))
                ELSE /\ messages[k].format = None
                     /\ messages[k].formatted_content = None

\* C9 witness: a span opened in the header and closed by a continuation
\* line, after an italic span of the header alone
C9_Witness ==
    /\ pc = "done"
    /\ Len(messages) = 1
    /\ lines[1] = HMarkup \o "\n"
    /\ messages[1].content = Some("_say_ *hi\nthere*")
    /\ messages[1].formatted_content =
           Some("<em>say</em> <strong>hi<br>there</strong>")

\* a line with the date/time/dash prefix that is no message header
IsSystemNotice(line) == HasPrefix(line) /\ ~pattern(line)

\* C16: the step of the loop that reads a line with the date/time/dash
\* prefix that is no message header leaves the message list as it is.
C16_NoticeLeavesMessages ==
    [][(i' = i + 1 /\ IsSystemNotice(lines[i + 1])) => messages' = messages]_vars

\* C22: a header whose attachment source file is missing still gives its
\* message, without attachment reference, and the parse goes on.
C22_MissingAttachmentKeepsMessage ==
    \A c \in 1..Len(copies) :
        ~copies[c].ok =>
            /\ pc # "raised"
            /\ \E k \in 1..Len(messages) :
                   /\ messages[k].line = copies[c].line
                   /\ messages[k].attachments = None

\* a line that starts with a date and a time but lacks the dash
IsPartialHeader(line) == HasDateTime(line) /\ ~HasPrefix(line)

C25_RedactedStaysEmpty ==
    pc = "done" =>
        \A k \in 1..Len(messages) :
            messages[k].message_type = "redacted" =>
                /\ messages[k].content = None
                /\ messages[k].format = None
                /\ messages[k].formatted_content = None

\* C27: no header line ends the parse with the ValueError of datetime(), and
\* every message carries the date and time fields of its header line.
C27_HeaderGivesTimestamp ==
    /\ ~(pc = "raised" /\ err = "ValueError")
    /\ \A k \in 1..Len(messages) :
         LET line == lines[messages[k].line]
         IN  messages[k].created_timestamp =
                 [year   |-> 2000 + DigitVal(Ch(line, 7)) * 10 + DigitVal(Ch(line, 8)),
                  month  |-> DigitVal(Ch(line, 4)) * 10 + DigitVal(Ch(line, 5)),
                  day    |-> DigitVal(Ch(line, 1)) * 10 + DigitVal(Ch(line, 2)),
                  hour   |-> DigitVal(Ch(line, 11)) * 10 + DigitVal(Ch(line, 12)),
                  minute |-> DigitVal(Ch(line, 14)) * 10 + DigitVal(Ch(line, 15))]

\* a text column of the index entry holds the value, if there is one
Covers(entry, v) ==
    v = None \/ \E col \in DOMAIN entry \ {"id"} : entry[col] = v

\* C21: message_search exists only once the messages are committed, and then
\* it holds one entry per messages row, in order, with the row's id and
\* covering the row's content and its formatted_content.
C21_IndexCoversTable ==
    /\ message_search # None => pc = "indexed"
    /\ pc = "indexed" =>
         /\ Len(message_search[1]) = Len(wa_table)
         /\ \A k \in 1..Len(wa_table) :
              /\ message_search[1][k].id = wa_table[k].id
              /\ Covers(message_search[1][k], wa_table[k].content)
              /\ Covers(message_search[1][k], wa_table[k].formatted_content)

\* ------------------------------------------------------------------------
\* parse_markdown on its own: the two calls backup_messages makes on a text,
\* detection (test=True) and rendering (test=False)
\* ------------------------------------------------------------------------

wa_idle == /\ lines = <<>> /\ i = 0 /\ skip = FALSE /\ messages = <<>>
           /\ pc = "idle" /\ err = "" /\ copies = <<>>
           /\ wa_table = <<>> /\ message_search = <<>>
wa_same == UNCHANGED <<lines, i, skip, messages, pc, err, copies,
                       wa_table, message_search>>

Detect ==
    /\ md_pc = "call" /\ md_detect = None
    /\ md_detect' = Some(parse_markdown(md_text, TRUE))
    /\ md_pc' = IF md_render # None THEN "done" ELSE "call"
    /\ UNCHANGED <<md_text, md_render>>
    /\ wa_same /\ mx_same /\ wu_same

Render ==
    /\ md_pc = "call" /\ md_render = None
    /\ md_render' = Some(parse_markdown(md_text, FALSE))
    /\ md_pc' = IF md_detect # None THEN "done" ELSE "call"
    /\ UNCHANGED <<md_text, md_detect>>
    /\ wa_same /\ mx_same /\ wu_same

\* the texts explored: up to MaxPieces pieces of the markup alphabet, and up
\* to MaxCore pieces of the italic/bold alphabet
MaxPieces == 4
MaxCore == 6

MdPieces == {"*", "_", "~", BT3, "a", " ", "\n", "<"}
CorePieces == {"*", "_", "a"}

RECURSIVE Texts(_, _)
Texts(P, n) == IF n = 0 THEN {""}
               ELSE {""} \cup {q \o t : q \in P, t \in Texts(P, n - 1)}

\* monospace blocks: a triple backquote, up to MaxMono pieces, a triple
\* backquote
MaxMono == 4
MonoPieces == {"_", "*", "~", "a", "\n", "<"}
MonoTexts == {BT3 \o t \o BT3 : t \in Texts(MonoPieces, MaxMono) \ {""}}

\* texts whose delimiters all follow a backslash: up to MaxEsc pieces
MaxEsc == 3
EscPieces == {"\\_", "\\*", "\\~", "\\" \o BT3, "a", " "}
EscTexts == Texts(EscPieces, MaxEsc)

MdTexts == Texts(MdPieces, MaxPieces) \cup Texts(CorePieces, MaxCore)
               \cup MonoTexts \cup EscTexts
               \cup {"*hi*there", "say *hi* there"}

InitMarkdown ==
    /\ md_text \in MdTexts
    /\ md_detect = None
    /\ md_render = None
    /\ md_pc = "call"
    /\ wa_idle
    /\ mx_idle
    /\ wu_idle

NextMarkdown == Detect \/ Render

SpecMarkdown == InitMarkdown /\ [][NextMarkdown]_vars

\* ------------------------------------------------------------------------
\* Properties of parse_markdown
\* ------------------------------------------------------------------------

\* how often the string t occurs in s
Occurrences(s, t) == Cardinality({q \in 1..Len(s) : StartsAt(s, q, t)})

MarkupTags == {"<em>", "<strong>", "<del>", "<pre>"}

HasTag(s) == \E t \in MarkupTags : Occurrences(s, t) > 0

\* the text with only the escaping and the newline substitution applied
EscapedOnly(s) == Replace(html_escape(s), "\n", "<br>")

\* C8: detection finds markup in a text exactly when its rendering holds a
\* markup tag, that is differs from the escaped text with <br> for newlines,
\* and the two hold the same number of spans of every kind.
C8_DetectionAgreesWithRendering ==
    (md_detect # None /\ md_render # None) =>
        /\ (md_detect[1] # md_text) <=> (md_render[1] # EscapedOnly(md_text))
        /\ (md_detect[1] # md_text) <=> HasTag(md_render[1])
        /\ \A t \in MarkupTags :
               Occurrences(md_detect[1], t) = Occurrences(md_render[1], t)

\* C8 witness: a text that needs escaping next to a span, detected and
\* rendered
C8_Witness ==
    /\ md_text = "<*a*"
    /\ md_detect = Some("<<strong>a</strong>")
    /\ md_render = Some("&lt;<strong>a</strong>")

\* the pairs of * in u that may delimit a bold span: a * and the next * after
\* it, with a boundary before the first, a boundary after the second and a
\* non-empty text between
EligibleSpans(u) ==
    {pq \in {<<p, FindChar(u, p + 1, "*")>> : p \in {q \in 1..Len(u) : Ch(u, q) = "*"}} :
        /\ pq[2] <= Len(u)
        /\ pq[2] >= pq[1] + 2
        /\ (pq[1] = 1 \/ ~IsWord(Ch(u, pq[1] - 1)))
        /\ (pq[2] = Len(u) \/ ~IsWord(Ch(u, pq[2] + 1)))}

\* the texts between <strong> and the next </strong> in s
BoldTexts(s) ==
    {SubSeq(s, a + 8, LazyClose(s, a + 8, "</strong>", TRUE) - 1) :
        a \in {q \in 1..Len(s) : StartsAt(s, q, "<strong>")}}

\* C10 (as claimed): parse_markdown emits no more bold spans than the text
\* it is given has pairs of * with a boundary on both sides and a non-empty
\* text without * between.
C10_BoldOnlyAtInputBoundary ==
    md_detect # None =>
        Occurrences(md_detect[1], "<strong>") <= Cardinality(EligibleSpans(md_text))

\* C10 (amended): the boundaries are those of the text the bold pass
\* receives, the escaped text after the italics pass: every bold span it
\* emits is the text of such a pair, it changes nothing when there is none,
\* and "*hi*there" stays while "say *hi* there" gets its bold span.
C10_BoldOnlyAtPassBoundary ==
    /\ \A u \in {Italics(md_text), Italics(html_escape(md_text))} :
         LET b == Bold(u)
             e == EligibleSpans(u)
         IN  /\ BoldTexts(b) \subseteq {SubSeq(u, pq[1] + 1, pq[2] - 1) : pq \in e}
             /\ Occurrences(b, "<strong>") <= Cardinality(e)
             /\ (e = {} => b = u)
    /\ md_text = "*hi*there" =>
         /\ md_detect \in {None, Some("*hi*there")}
         /\ md_render \in {None, Some("*hi*there")}
    /\ md_text = "say *hi* there" =>
         /\ md_detect \in {None, Some("say <strong>hi</strong> there")}
         /\ md_render \in {None, Some("say <strong>hi</strong> there")}

\* C10 witness: the bold span of "say *hi* there" has been rendered
C10_Witness ==
    /\ md_text = "say *hi* there"
    /\ md_render = Some("say <strong>hi</strong> there")
    /\ md_detect = Some("say <strong>hi</strong> there")

\* a text that is one monospace block: a triple backquote, a non-empty
\* interior without backquotes, a triple backquote
IsMonoBlock(s) ==
    /\ Len(s) >= 7
    /\ StartsAt(s, 1, BT3)
    /\ StartsAt(s, Len(s) - 2, BT3)
    /\ Occurrences(SubSeq(s, 4, Len(s) - 3), "'") = 0

\* the text between the first and the last character of s
Interior(s, n) == SubSeq(s, n + 1, Len(s) - n)

\* C11: a text that is one monospace block is rendered as <pre>, its
\* interior with escaping and newline substitution only, and </pre>, also
\* when the interior holds newlines.
C11_MonoInteriorExempt ==
    (IsMonoBlock(md_text) /\ md_render # None) =>
        md_render[1] = "<pre>" \o EscapedOnly(Interior(md_text, 3)) \o "</pre>"

\* a text that is one span of the delimiter d: d, a non-empty interior
\* without d, newline and backquote, d
IsSingleSpan(s, d) ==
    /\ Len(s) >= 3
    /\ Ch(s, 1) = d
    /\ Ch(s, Len(s)) = d
    /\ \A c \in {d, "\n", "'"} : Occurrences(Interior(s, 1), c) = 0

\* C12: when the whole text is one italic span _X_, the later passes leave
\* <em>X</em> as the italics pass emitted it; when it is one bold span *X*
\* the italics pass does not touch, the strikethrough pass leaves
\* <strong>X</strong> as the bold pass emitted it.
C12_NoReentry ==
    md_detect # None =>
        /\ IsSingleSpan(md_text, "_") =>
               md_detect[1] = "<em>" \o Interior(md_text, 1) \o "</em>"
        /\ (IsSingleSpan(md_text, "*") /\ Occurrences(md_text, "_") = 0) =>
               md_detect[1] = "<strong>" \o Interior(md_text, 1) \o "</strong>"

\* C13: a text whose delimiters all follow a backslash is returned by
\* detection as it is and rendered without a markup tag.
C13_EscapedDelimitersInert ==
    md_text \in EscTexts =>
        /\ md_detect # None => md_detect[1] = md_text
        /\ md_render # None => ~HasTag(md_render[1])

\* C14: detection applied to the output of detection returns that output.
C14_DetectionIdempotent ==
    md_detect # None => parse_markdown(md_detect[1], TRUE) = md_detect[1]

DelimiterChars == {"_", "*", "~", "'"}

NoDelimiters(s) == \A q \in 1..Len(s) : Ch(s, q) \notin DelimiterChars

\* C15: a text without delimiter characters is returned by detection as it
\* is and rendered with escaping and newline substitution only.
C15_PlainTextIdentity ==
    NoDelimiters(md_text) =>
        /\ md_detect # None => md_detect[1] = md_text
        /\ md_render # None => md_render[1] = EscapedOnly(md_text)

\* C15 witness: a plain text with a character to escape and a newline,
\* detected and rendered
C15_Witness ==
    /\ md_text = "a<\n"
    /\ NoDelimiters(md_text)
    /\ md_detect = Some("a<\n")
    /\ md_render = Some("a&lt;<br>")

TagNames == {"em", "strong", "del", "pre"}

RECURSIVE Nested(_, _, _)
\* the tags of s from position k on close in the reverse order of their
\* opening and none stays open; open holds the names of the open tags
Nested(s, k, open) ==
    IF k > Len(s) THEN open = <<>>
    ELSE IF \E t \in TagNames : StartsAt(s, k, "<" \o t \o ">")
         THEN LET t == CHOOSE u \in TagNames : StartsAt(s, k, "<" \o u \o ">")
              IN  Nested(s, k + Len(t) + 2, open \o <<t>>)
    ELSE IF \E t \in TagNames : StartsAt(s, k, "</" \o t \o ">")
         THEN LET t == CHOOSE u \in TagNames : StartsAt(s, k, "</" \o u \o ">")
              IN  /\ open # <<>>
                  /\ Last(open) = t
                  /\ Nested(s, k + Len(t) + 3, SubSeq(open, 1, Len(open) - 1))
    ELSE Nested(s, k + 1, open)

\* C26: in every rendering the tags em, strong, del and pre are balanced and
\* properly nested.
C26_TagsNested ==
    md_render # None => Nested(md_render[1], 1, <<>>)

\* ------------------------------------------------------------------------
\* matrix-convertor.py: the tables, __main__ and backup_messages
\* ------------------------------------------------------------------------

UpperString == "ABCDEFGHIJKLMNOPQRSTUVWXYZ"

\* str.lower() of one character
Lower(c) == IF \E k \in 1..26 : Ch(UpperString, k) = c
            THEN Ch(WordString, CHOOSE k \in 1..26 : Ch(UpperString, k) = c)
            ELSE c

\* sanitize(value): lower case, the characters NTFS forbids become "_"
RECURSIVE sanitize(_)
sanitize(value) ==
    IF Len(value) = 0 THEN ""
    ELSE (IF Ch(value, 1) \in {"\"", "*", "/", ":", "<", ">", "?", "\\", "|"}
          THEN "_" ELSE Lower(Ch(value, 1)))
         \o sanitize(From(value, 2))

\* NAME_REGEX.match(s).group(1): (.*) <@.*:.*> , the greedy (.*) ends at the
\* last " <@" that a ":" and a ">" follow
NameOf(s) ==
    SubSeq(s, 1, Max({q \in 1..Len(s) :
                        /\ StartsAt(s, q, " <@")
                        /\ \E c \in (q + 3)..Len(s) :
                             /\ Ch(s, c) = ":"
                             /\ \E g \in (c + 1)..Len(s) : Ch(s, g) = ">"}) - 1)

\* NAME_FROM_TAG_REGEX.match(s).group(1): @(.*):.* , up to the last ":"
NameFromTag(s) == SubSeq(s, 2, Max({q \in 1..Len(s) : Ch(s, q) = ":"}) - 1)

\* the info.json of the two rooms: id and user_avatars (matrix-archive.py
\* lists only the members that have an avatar)
RoomInfo ==
    [r \in {"!r1:hs", "!r2:hs"} |->
        [id           |-> r,
         name         |-> IF r = "!r1:hs" THEN "Room 1" ELSE "Room 2",
         topic        |-> None,
         avatar       |-> None,
         user_avatars |-> [u \in {"@alice:hs"} |-> "alice.png"]]]

\* the events explored.  An event is the JSON object of events.json:
\* relates_to is content["m.relates_to"] (rel_type and event_id, or the
\* m.in_reply_to event id), sender_name is _sender_name, format and
\* formatted_body are absent together, redacted is "redacted_because" in
\* event; an edit carries its m.new_content in msgtype, body and format
Event(id, room, sender, sender_name, ts, msgtype, body, fmt, rel, redacted) ==
    [event_id |-> id, room_id |-> room, sender |-> sender,
     sender_name |-> sender_name, origin_server_ts |-> ts,
     msgtype |-> msgtype, body |-> body, formatted_body |-> fmt,
     relates_to |-> rel, redacted |-> redacted]

NoRel == [rel_type |-> None, event_id |-> None, in_reply_to |-> None]
Replace_(id) == [rel_type |-> Some("m.replace"), event_id |-> Some(id), in_reply_to |-> None]
ReplyTo(id) == [rel_type |-> None, event_id |-> None, in_reply_to |-> Some(id)]

AliceName == Some("Alice <@alice:hs>")

EvAlice   == Event("$E1", "!r1:hs", "@alice:hs", AliceName, 1500, "m.text", "hi",
                   Some("<b>hi</b>"), NoRel, FALSE)
\* a member without an avatar
EvBob     == Event("$E2", "!r1:hs", "@bob:hs", Some("Bob <@bob:hs>"), 2000, "m.text",
                   "yo", None, ReplyTo("$E1"), FALSE)
\* a sender who has left the room
EvCarol   == Event("$E3", "!r1:hs", "@carol:hs", None, 2500, "m.text", "bye",
                   None, NoRel, FALSE)
EvEdit1   == Event("$E4", "!r1:hs", "@alice:hs", AliceName, 3000, "m.text", "hi!",
                   None, Replace_("$E1"), FALSE)
EvEdit2   == Event("$E5", "!r1:hs", "@alice:hs", AliceName, 3500, "m.text", "hi!!",
                   Some("<i>hi!!</i>"), Replace_("$E1"), FALSE)
\* an event id a second time
EvDup     == Event("$E1", "!r1:hs", "@alice:hs", AliceName, 4000, "m.text", "again",
                   None, NoRel, FALSE)
EvImage   == Event("$E6", "!r1:hs", "@alice:hs", AliceName, 4500, "m.image", "Cat.PNG",
                   None, NoRel, FALSE)
EvRedact  == Event("$E7", "!r1:hs", "@alice:hs", AliceName, 5000, "", "",
                   None, NoRel, TRUE)
\* an edit of an event that is not in the table
EvOrphan  == Event("$E8", "!r1:hs", "@alice:hs", AliceName, 5500, "m.text", "??",
                   None, Replace_("$E0"), FALSE)
EvRoom2   == Event("$E9", "!r2:hs", "@alice:hs", AliceName, 6000, "m.text", "hello",
                   None, NoRel, FALSE)

MxEvents == {EvAlice, EvBob, EvCarol, EvEdit1, EvEdit2, EvDup, EvImage,
             EvRedact, EvOrphan, EvRoom2}

MaxEvents == 3

IsEdit(e) == e.relates_to.rel_type = Some("m.replace")

\* the rows of messages with the given id (at most one: id is PRIMARY KEY)
MxRows(id) == {k \in 1..Len(mx_messages) : mx_messages[k].id = id}

\* datetime.utcfromtimestamp(ts / 1000): whole seconds and the rest
UtcFromMillis(ts) == [seconds |-> ts \div 1000, microseconds |-> (ts % 1000) * 1000]

\* what the process leaves in backup.db when an exception ends it: the
\* transaction of backup_messages is never committed
MxRaise(e) ==
    /\ mx_pc' = "raised"
    /\ mx_err' = e
    /\ mx_users' = {}
    /\ mx_messages' = <<>>
    /\ UNCHANGED <<mx_events, mx_i, mx_chats>>

\* __main__: the three tables are created, one chats row per info.json is
\* inserted and committed
MxMain ==
    /\ mx_pc = "main"
    /\ mx_chats' = {[id |-> RoomInfo[r].id, name |-> RoomInfo[r].name,
                     topic |-> RoomInfo[r].topic, avatar |-> RoomInfo[r].avatar] :
                        r \in DOMAIN RoomInfo}
    /\ mx_pc' = "events"
    /\ UNCHANGED <<mx_events, mx_i, mx_users, mx_messages, mx_dirs, mx_err>>
    /\ wa_same /\ md_same /\ wu_same

\* the edits column without the entries it held: the new entry alone
EditsAfter_Replace(edits, entry) == Some(<<entry>>)

\* the edits column after an edit: json.loads of the column, or [] when it is
\* NULL, with the entry appended
EditsAfter(edits, entry) ==
    Some(Append(IF edits # None THEN edits[1] ELSE <<>>, entry))

\* backup_messages, an event with rel_type m.replace: one entry is appended
\* to the edits of the row it names; fetchone() is None when there is no
\* such row
MxEdit ==
    /\ mx_pc = "events" /\ mx_i < Len(mx_events)
    /\ LET event == mx_events[mx_i + 1]
           original_id == event.relates_to.event_id[1]
           entry == <<event.origin_server_ts, event.msgtype, event.body,
                      IF event.formatted_body # None THEN Some("org.matrix.custom.html")
                                                     ELSE None,
                      event.formatted_body>>
       IN  /\ IsEdit(event)
           /\ IF MxRows(original_id) = {}
              THEN MxRaise("TypeError") /\ UNCHANGED mx_dirs
              ELSE /\ mx_messages' =
                        [k \in 1..Len(mx_messages) |->
                            IF mx_messages[k].id = original_id
                            THEN [mx_messages[k] EXCEPT !.edits = EditsAfter(@, entry)]
                            ELSE mx_messages[k]]
                   /\ mx_i' = mx_i + 1
                   /\ UNCHANGED <<mx_events, mx_chats, mx_users, mx_dirs, mx_pc, mx_err>>
    /\ wa_same /\ md_same /\ wu_same

\* the users row of the sender of an event
MxUser(event) ==
    [id     |-> event.sender,
     name   |-> IF event.sender_name # None THEN NameOf(event.sender_name[1])
                                            ELSE NameFromTag(event.sender),
     avatar |-> IF event.sender \in DOMAIN RoomInfo[event.room_id].user_avatars
                THEN Some(RoomInfo[event.room_id].user_avatars[event.sender])
                ELSE None,
     color  |-> None]

\* INSERT OR IGNORE INTO users: the row is dropped without an error when its
\* id is taken or when a NOT NULL column (avatar) would be NULL
InsertOrIgnoreUser(users, row) ==
    IF row.avatar = None \/ \E u \in users : u.id = row.id
    THEN users
    ELSE users \cup {row}

IsAttachment(event) == ~event.redacted /\ event.msgtype \in {"m.image", "m.file"}

\* the directory made for the attachment of an event
AttachmentDir(event) == sanitize(event.room_id) \o "/" \o sanitize(event.event_id)

\* the messages row of an event
MxMessageRow(event) ==
    [id                |-> event.event_id,
     chat              |-> event.room_id,
     user_id           |-> event.sender,
     name              |-> MxUser(event).name,
     avatar            |-> MxUser(event).avatar,
     color             |-> None,
     created_timestamp |-> UtcFromMillis(event.origin_server_ts),
     edits             |-> None,
     reference         |-> event.relates_to.in_reply_to,
     message_type      |-> IF event.redacted THEN "m.room.redaction" ELSE event.msgtype,
     content           |-> IF event.redacted THEN None
                           ELSE IF IsAttachment(event)
                           THEN Some(AttachmentDir(event) \o "/" \o sanitize(event.body))
                           ELSE Some(event.body),
     format            |-> IF event.formatted_body # None
                           THEN Some("org.matrix.custom.html") ELSE None,
     formatted_content |-> event.formatted_body]

\* backup_messages, any other event: the sender's users row, the attachment
\* copy, the messages row; os.mkdir raises when the directory is there,
\* shutil.copyfile when the media file is not (the environment's choice),
\* INSERT INTO messages when the id is taken
MxMessage ==
    /\ mx_pc = "events" /\ mx_i < Len(mx_events)
    /\ LET event == mx_events[mx_i + 1]
       IN  /\ ~IsEdit(event)
           /\ \E found \in BOOLEAN :
                /\ (~IsAttachment(event) => found)
                /\ IF IsAttachment(event) /\ AttachmentDir(event) \in mx_dirs
                   THEN MxRaise("FileExistsError") /\ UNCHANGED mx_dirs
                   ELSE /\ mx_dirs' = IF IsAttachment(event)
                                      THEN mx_dirs \cup {AttachmentDir(event)}
                                      ELSE mx_dirs
                        /\ IF ~found THEN MxRaise("FileNotFoundError")
                           ELSE IF MxRows(event.event_id) # {}
                           THEN MxRaise("IntegrityError")
                           ELSE /\ mx_users' = InsertOrIgnoreUser(mx_users, MxUser(event))
                                /\ mx_messages' = Append(mx_messages, MxMessageRow(event))
                                /\ mx_i' = mx_i + 1
                                /\ UNCHANGED <<mx_events, mx_chats, mx_pc, mx_err>>
    /\ wa_same /\ md_same /\ wu_same

\* conn.commit() after the last event
MxCommit ==
    /\ mx_pc = "events" /\ mx_i = Len(mx_events)
    /\ mx_pc' = "done"
    /\ UNCHANGED <<mx_events, mx_i, mx_chats, mx_users, mx_messages, mx_dirs, mx_err>>
    /\ wa_same /\ md_same /\ wu_same

\* the events of one events.json stay together: room 1's, then room 2's
InitMatrix ==
    /\ \E n \in 0..MaxEvents :
         \E es \in [1..n -> MxEvents] :
           /\ \A a, b \in 1..n : (a < b /\ es[b].room_id = "!r1:hs") => es[a].room_id = "!r1:hs"
           /\ mx_events = es
    /\ mx_i = 0
    /\ mx_chats = {}
    /\ mx_users = {}
    /\ mx_messages = <<>>
    /\ mx_dirs = {}
    /\ mx_pc = "main"
    /\ mx_err = ""
    /\ wa_idle
    /\ md_idle
    /\ wu_idle

NextMatrix == MxMain \/ MxEdit \/ MxMessage \/ MxCommit

SpecMatrix == InitMatrix /\ [][NextMatrix]_vars

\* ------------------------------------------------------------------------
\* Properties of the archive
\* ------------------------------------------------------------------------

\* C7: when the run has completed, every messages row names a users row in
\* user_id and a chats row in chat.
C7_MessagesResolve ==
    mx_pc = "done" =>
        \A k \in 1..Len(mx_messages) :
            /\ \E u \in mx_users : u.id = mx_messages[k].user_id
            /\ \E c \in mx_chats : c.id = mx_messages[k].chat

\* every edit of events.json names an event that is not an edit and stands
\* before it
EditsFollowTargets ==
    \A b \in 1..Len(mx_events) :
        IsEdit(mx_events[b]) =>
            \E a \in 1..(b - 1) :
                /\ ~IsEdit(mx_events[a])
                /\ mx_events[a].event_id = mx_events[b].relates_to.event_id[1]

\* the events among the first n that are not edits, in their order
NonEdits(n) == SelectSeq(SubSeq(mx_events, 1, n), LAMBDA e : ~IsEdit(e))

\* the edits of the event id among the first n events, in their order
EditsOf(id, n) ==
    SelectSeq(SubSeq(mx_events, 1, n),
              LAMBDA e : IsEdit(e) /\ e.relates_to.event_id[1] = id)

\* the entries [timestamp, msgtype, body, format, formatted_body] of edits
EntriesOf(es) ==
    [j \in 1..Len(es) |->
        <<es[j].origin_server_ts, es[j].msgtype, es[j].body,
          IF es[j].formatted_body = None THEN None ELSE Some("org.matrix.custom.html"),
          es[j].formatted_body>>]

C24_OtherChatsPersist ==
    (mx_pc = "raised" /\ mx_err = "IntegrityError") =>
        \A a \in 1..Len(mx_events) :
            (~IsEdit(mx_events[a]) /\ mx_events[a].room_id # mx_events[mx_i + 1].room_id) =>
                /\ MxRows(mx_events[a].event_id) # {}
                /\ \E u \in mx_users : u.id = mx_events[a].sender

\* ------------------------------------------------------------------------
\* whatsapp.py: initialize_backup's loop over the transcripts and
\* backup_users, the registration of the senders of one transcript.  The
\* chats and messages rows of a transcript are left to the specification of
\* backup_messages; the files info.json names are taken to exist.
\* ------------------------------------------------------------------------

\* the display names that occur, those info.json may know, and the phone
\* numbers info.json and the operator use
Names == {"Alice", "Bob", "Carol"}
InfoNames == {"Alice", "Bob"}
Phones == {"911", "922"}

\* what the operator may answer to the colour prompt: nothing, or a hex code
ColorInputs == {None, Some("#48ff63")}

MaxChats == 2

\* the "avatar" and "color" of an info.json entry
InfoAvatar(name) == IF name = "Alice" THEN Some("alice.png") ELSE None
InfoColor(name) == IF name = "Alice" THEN Some("#48ff63") ELSE None

\* shortuuid.uuid() + extension: the n-th name drawn differs from the others
UuidName(n, ext) == "u" \o SubSeq("0123456789", (n % 10) + 1, (n % 10) + 1) \o ext

\* d[k] = v of a dict held as a function
Put(d, k, v) == [x \in (DOMAIN d) \cup {k} |-> IF x = k THEN v ELSE d[x]]

\* d.update(e)
Update(d, e) == [x \in (DOMAIN d) \cup (DOMAIN e) |-> IF x \in DOMAIN e THEN e[x] ELSE d[x]]

\* new_users[id] = rec of a dict held in insertion order: a key that is
\* there keeps its place and takes the new value
PutNew(seq, rec) ==
    IF \E k \in 1..Len(seq) : seq[k].id = rec.id
    THEN [k \in 1..Len(seq) |-> IF seq[k].id = rec.id THEN rec ELSE seq[k]]
    ELSE Append(seq, rec)

\* InfoHit that holds only for a name no earlier transcript had
InfoHit_NewNameOnly(name) == name \in DOMAIN wu_info /\ name \notin DOMAIN wu_users

\* "users" in info and name in info["users"]
InfoHit(name) == name \in DOMAIN wu_info

\* PhoneAccepted without the test of line 132
PhoneAccepted_Any(user_id) == user_id \in Phones

\* the phone number typed is taken: it is not in existing_ids
PhoneAccepted(user_id) == user_id \notin wu_ids

wu_frame == UNCHANGED <<wu_info, wu_chats>> /\ wa_same /\ md_same /\ mx_same

\* initialize_backup, the head of the loop body: the chat is set up and
\* backup_users starts on the names of the transcript
BeginChat ==
    /\ wu_pc = "main" /\ wu_t < Len(wu_chats)
    /\ wu_t' = wu_t + 1
    /\ wu_todo' = wu_chats[wu_t + 1]
    /\ wu_new' = <<>>
    /\ wu_group' = EmptyMap
    /\ wu_pc' = "names"
    /\ UNCHANGED <<wu_users, wu_ids, wu_table, wu_uuid, wu_resolved, wu_skipped,
                   wu_log, wu_err>>
    /\ wu_frame

\* backup_users, a name info.json knows: it is registered under the id of
\* info.json when no earlier transcript had the name, and resolved to that
\* id in any case; the id is not compared with existing_ids
FromInfo ==
    /\ wu_pc = "names"
    /\ \E name \in wu_todo :
         /\ InfoHit(name)
         /\ LET e      == wu_info[name]
                fresh  == name \notin DOMAIN wu_users
                avatar == IF ~fresh THEN wu_users[name].avatar
                          ELSE IF e.avatar = None THEN "default.svg"
                          ELSE UuidName(wu_uuid, ".png")
            IN  /\ wu_new' = IF fresh
                             THEN PutNew(wu_new, [id |-> e.user_id, name |-> name,
                                                  avatar |-> avatar, color |-> e.color])
                             ELSE wu_new
                /\ wu_uuid' = IF fresh /\ e.avatar # None THEN wu_uuid + 1 ELSE wu_uuid
                /\ wu_group' = Put(wu_group, name,
                                   [user_id |-> e.user_id, avatar |-> avatar, color |-> e.color])
                /\ wu_ids' = wu_ids \cup {e.user_id}
         /\ wu_todo' = wu_todo \ {name}
    /\ UNCHANGED <<wu_t, wu_users, wu_table, wu_resolved, wu_skipped, wu_log,
                   wu_pc, wu_err>>
    /\ wu_frame

\* backup_users, a name of an earlier transcript that info.json does not
\* know, and the operator answers y: the user of the earlier transcript
SkipExisting ==
    /\ wu_pc = "names"
    /\ \E name \in wu_todo :
         /\ ~InfoHit(name)
         /\ name \in DOMAIN wu_users
         /\ wu_group' = Put(wu_group, name, wu_users[name])
         /\ wu_skipped' = wu_skipped \cup {<<wu_t, name>>}
         /\ wu_todo' = wu_todo \ {name}
    /\ UNCHANGED <<wu_t, wu_new, wu_users, wu_ids, wu_table, wu_uuid, wu_resolved,
                   wu_log, wu_pc, wu_err>>
    /\ wu_frame

\* backup_users, a name info.json does not know that is new or for which the
\* operator answers n: the phone number, the avatar and the colour are
\* asked for.  A number in existing_ids is refused and the prompts repeat,
\* which changes nothing, so only the number that is accepted is a step.
Interactive ==
    /\ wu_pc = "names"
    /\ \E name \in wu_todo, user_id \in Phones, color \in ColorInputs :
         /\ ~InfoHit(name)
         /\ PhoneAccepted(user_id)
         /\ LET avatar == UuidName(wu_uuid, ".jpg")
            IN  /\ wu_new' = PutNew(wu_new, [id |-> user_id, name |-> name,
                                             avatar |-> avatar, color |-> color])
                /\ wu_group' = Put(wu_group, name,
                                   [user_id |-> user_id, avatar |-> avatar, color |-> color])
         /\ wu_ids' = wu_ids \cup {user_id}
         /\ wu_uuid' = wu_uuid + 1
         /\ wu_todo' = wu_todo \ {name}
    /\ UNCHANGED <<wu_t, wu_users, wu_table, wu_resolved, wu_skipped, wu_log,
                   wu_pc, wu_err>>
    /\ wu_frame

\* backup_users returns new_users and group_users
ReturnUsers ==
    /\ wu_pc = "names" /\ wu_todo = {}
    /\ wu_resolved' = Append(wu_resolved, wu_group)
    /\ wu_pc' = "write"
    /\ UNCHANGED <<wu_t, wu_todo, wu_new, wu_group, wu_users, wu_ids, wu_table,
                   wu_uuid, wu_skipped, wu_log, wu_err>>
    /\ wu_frame

\* the ids of the users table
TableIds == {r.id : r \in wu_table}

\* the first entry of new_users whose id the users table holds already,
\* Len(new_users) + 1 if there is none
RECURSIVE FirstDuplicate(_)
FirstDuplicate(k) ==
    IF k > Len(wu_new) THEN k
    ELSE IF wu_new[k].id \in TableIds THEN k
    ELSE FirstDuplicate(k + 1)

\* initialize_backup: INSERT INTO users for every entry of new_users, then
\* user_ids and users are updated.  The INSERT of an id the table holds
\* raises sqlite3.IntegrityError: the run ends before conn.commit() and the
\* rows inserted so far are lost with the transaction.
WriteUsers ==
    /\ wu_pc = "write"
    /\ LET d == FirstDuplicate(1)
       IN  /\ wu_log' = wu_log \o [k \in 1..(d - 1) |-> wu_new[k].id]
           /\ IF d <= Len(wu_new)
              THEN /\ wu_pc' = "raised"
                   /\ wu_err' = "IntegrityError"
                   /\ wu_table' = {}
                   /\ UNCHANGED <<wu_ids, wu_users>>
              ELSE /\ wu_table' = wu_table \cup {wu_new[k] : k \in 1..Len(wu_new)}
                   /\ wu_ids' = wu_ids \cup {wu_new[k].id : k \in 1..Len(wu_new)}
                   /\ wu_users' = Update(wu_users, wu_group)
                   /\ wu_pc' = "main"
                   /\ UNCHANGED wu_err
    /\ UNCHANGED <<wu_t, wu_todo, wu_new, wu_group, wu_uuid, wu_resolved, wu_skipped>>
    /\ wu_frame

\* initialize_backup after the last transcript: conn.commit()
CommitUsers ==
    /\ wu_pc = "main" /\ wu_t = Len(wu_chats)
    /\ wu_pc' = "done"
    /\ UNCHANGED <<wu_t, wu_todo, wu_new, wu_group, wu_users, wu_ids, wu_table,
                   wu_uuid, wu_resolved, wu_skipped, wu_log, wu_err>>
    /\ wu_frame

\* info.json maps some of InfoNames to phone numbers; up to MaxChats
\* transcripts, each with the set of its sender names
InitUsers ==
    /\ \E S \in SUBSET InfoNames :
         \E f \in [S -> Phones] :
           wu_info = [n \in S |-> [user_id |-> f[n], avatar |-> InfoAvatar(n),
                                   color |-> InfoColor(n)]]
    /\ \E n \in 0..MaxChats : wu_chats \in [1..n -> SUBSET Names]
    /\ wu_t = 0
    /\ wu_todo = {}
    /\ wu_new = <<>>
    /\ wu_group = EmptyMap
    /\ wu_users = EmptyMap
    /\ wu_ids = {}
    /\ wu_table = {}
    /\ wu_uuid = 0
    /\ wu_resolved = <<>>
    /\ wu_skipped = {}
    /\ wu_log = <<>>
    /\ wu_pc = "main"
    /\ wu_err = ""
    /\ wa_idle
    /\ md_idle
    /\ mx_idle

NextUsers == BeginChat \/ FromInfo \/ SkipExisting \/ Interactive \/ ReturnUsers
                 \/ WriteUsers \/ CommitUsers

SpecUsers == InitUsers /\ [][NextUsers]_vars

\* ------------------------------------------------------------------------
\* Properties of the user registration
\* ------------------------------------------------------------------------

\* how many users rows were inserted with the id
Inserts(id) == Cardinality({k \in 1..Len(wu_log) : wu_log[k] = id})

\* the transcripts whose backup_users call has returned and resolved the name
ResolvedIn(name) == {t \in 1..Len(wu_resolved) : name \in DOMAIN wu_resolved[t]}

\* the users of transcript t have been written and the run has not raised
Written(t) == /\ wu_pc # "raised"
              /\ (wu_t > t \/ (wu_t = t /\ wu_pc \in {"main", "done"}))

\* C17: a name with an info.json entry is resolved to the user id of that
\* entry by every transcript it occurs in, at most one users row is ever
\* inserted for that id, and when the run is done exactly one was inserted
\* and the table holds exactly one row with the id.
C17_SameKeySameUser ==
    \A name \in DOMAIN wu_info :
      \A t1, t2 \in ResolvedIn(name) :
        t1 < t2 =>
          LET id == wu_info[name].user_id
          IN  /\ wu_resolved[t1][name].user_id = id
              /\ wu_resolved[t2][name].user_id = id
              /\ Inserts(id) <= 1
              /\ wu_pc = "done" =>
                   /\ Inserts(id) = 1
                   /\ Cardinality({r \in wu_table : r.id = id}) = 1

\* C17 witness: Alice, known to info.json as 911, occurred in two
\* transcripts of a finished run
C17_Witness ==
    /\ wu_pc = "done"
    /\ "Alice" \in DOMAIN wu_info
    /\ ResolvedIn("Alice") = {1, 2}
    /\ wu_resolved[1]["Alice"].user_id = "911"
    /\ wu_resolved[2]["Alice"].user_id = "911"
    /\ wu_log = <<"911">>
    /\ wu_table = {[id |-> "911", name |-> "Alice", avatar |-> "u0.png",
                    color |-> Some("#48ff63")]}

\* C18: no user id is resolved to under two different display names, in one
\* transcript or in two.
C18_IdKeptByOneName ==
    \A t1, t2 \in 1..Len(wu_resolved) :
      \A n1 \in DOMAIN wu_resolved[t1], n2 \in DOMAIN wu_resolved[t2] :
        wu_resolved[t1][n1].user_id = wu_resolved[t2][n2].user_id => n1 = n2

\* C19 (as claimed): a name without info.json entry that occurs in two
\* transcripts is resolved to two different user ids, and both ids have a
\* users row once the later transcript's users are written.
C19_SameNameTwoUsers ==
    \A name \in Names \ DOMAIN wu_info :
      \A t1, t2 \in ResolvedIn(name) :
        t1 < t2 =>
          /\ wu_resolved[t1][name].user_id # wu_resolved[t2][name].user_id
          /\ Written(t2) =>
               {wu_resolved[t1][name].user_id, wu_resolved[t2][name].user_id}
                   \subseteq TableIds

\* C19 (amended): it depends on the operator's answer to "Skip?".  After n
\* the later transcript resolves the name to an id that differs from the ids
\* of all earlier transcripts, and both ids have a users row once its users
\* are written; after y it resolves the name to the user of the transcript
\* before, for whose id one row was inserted and no second one.
C19_SameNameTwoUsersUnlessSkipped ==
    \A name \in Names \ DOMAIN wu_info :
      \A t2 \in ResolvedIn(name) :
        LET prev == {t \in ResolvedIn(name) : t < t2}
            id2  == wu_resolved[t2][name].user_id
        IN  prev # {} =>
              IF <<t2, name>> \in wu_skipped
              THEN /\ \E t1 \in prev :
                        /\ \A t \in prev : t <= t1
                        /\ wu_resolved[t2][name] = wu_resolved[t1][name]
                   /\ Written(t2) => Inserts(id2) = 1
              ELSE \A t1 \in prev :
                        /\ wu_resolved[t1][name].user_id # id2
                        /\ Written(t2) =>
                             {wu_resolved[t1][name].user_id, id2} \subseteq TableIds

\* C19 witness: Carol, unknown to info.json, occurred in two transcripts of
\* a finished run, the operator answered n, and two rows were written
C19_Witness ==
    /\ wu_pc = "done"
    /\ "Carol" \notin DOMAIN wu_info
    /\ ResolvedIn("Carol") = {1, 2}
    /\ <<2, "Carol">> \notin wu_skipped
    /\ wu_resolved[1]["Carol"].user_id = "911"
    /\ wu_resolved[2]["Carol"].user_id = "922"
    /\ {r.name : r \in wu_table} = {"Carol"}
    /\ TableIds = {"911", "922"}

\* C20: the write of new_users when the table holds one of the ids already
\* raises no error and keeps every row of the table.
C20_DuplicateWriteIgnored ==
    [][(wu_pc = "write" /\ FirstDuplicate(1) <= Len(wu_new)) =>
           (wu_err' = "" /\ wu_table \subseteq wu_table')]_vars

=============================================================================
